---- MODULE Spec2Model ----
(***************************************************************************)
(* A model of toytorch's lirGAN training engine (src/lirGAN/model.py):     *)
(* the LirGanTrainer state machine (construction, weight initialisation,   *)
(* the epoch/batch loop of train(), the periodic diagnostics and           *)
(* evaluate()) and the pure loss functions of LirGeometricLoss.            *)
(***************************************************************************)
EXTENDS Integers, Sequences, FiniteSets, TLC

(***************************************************************************)
(* Bounds of the model.                                                    *)
(***************************************************************************)
MaxEpochs == 2
MaxLogInterval == 3
MaxBatches == 2
MaxEvaluate == 2
MaxCopies == 2
GridH == 2
GridW == 2
MaxSide == 1000
MaxBatchSize == 2
MaxFiles == 3

\* the resolution of the masks of the dataset
CanonicalSize == 500

\* The batches the dataloader may yield, each abstracted to the losses the
\* two steps compute on it (loss_d, and the adversarial part of loss_g).
Batches == { [d |-> 1, g |-> 3], [d |-> 3, g |-> 1] }

\* no batch fetched yet
NoBatch == [d |-> 0, g |-> 0]

None == "None"

(***************************************************************************)
(* Floating-point values as exact fractions <<n, d>> in lowest terms with  *)
(* d >= 0; d = 0 holds the IEEE specials: <<0, 0>> is nan, <<1, 0>> is     *)
(* inf, <<-1, 0>> is -inf.                                                 *)
(***************************************************************************)
RECURSIVE GCD(_, _)
GCD(a, b) == IF b = 0 THEN a ELSE GCD(b, a % b)

Abs(x) == IF x < 0 THEN -x ELSE x

Min3(a, b, c) ==
    LET m == IF a < b THEN a ELSE b IN IF m < c THEN m ELSE c

Sign(x) == IF x < 0 THEN -1 ELSE IF x > 0 THEN 1 ELSE 0

NaN == <<0, 0>>

Rat(n, d) ==
    IF d = 0 THEN <<Sign(n), 0>>
    ELSE LET g == GCD(Abs(n), Abs(d))
         IN  <<(Sign(d) * n) \div g, Abs(d) \div g>>

Num(n) == <<n, 1>>

IsNaN(a) == a = NaN

IsFinite(a) == a[2] # 0

RatAdd(a, b) ==
    IF IsNaN(a) \/ IsNaN(b) THEN NaN
    ELSE IF ~IsFinite(a) /\ ~IsFinite(b) THEN (IF a = b THEN a ELSE NaN)
    ELSE IF ~IsFinite(a) THEN a
    ELSE IF ~IsFinite(b) THEN b
    ELSE LET g == GCD(a[2], b[2])
         IN  Rat(a[1] * (b[2] \div g) + b[1] * (a[2] \div g),
                 (a[2] \div g) * b[2])

RatNeg(a) == <<-a[1], a[2]>>

RatSub(a, b) == RatAdd(a, RatNeg(b))

RatMul(a, b) ==
    IF IsNaN(a) \/ IsNaN(b) THEN NaN
    ELSE IF ~IsFinite(a) \/ ~IsFinite(b) THEN <<Sign(a[1]) * Sign(b[1]), 0>>
    ELSE LET g1 == GCD(Abs(a[1]), b[2])
             g2 == GCD(Abs(b[1]), a[2])
         IN  Rat((a[1] \div g1) * (b[1] \div g2),
                 (a[2] \div g2) * (b[2] \div g1))

RatDiv(a, b) ==
    IF IsNaN(a) \/ IsNaN(b) THEN NaN
    ELSE IF ~IsFinite(a) THEN (IF ~IsFinite(b) THEN NaN
                               ELSE IF b[1] < 0 THEN RatNeg(a) ELSE a)
    ELSE IF ~IsFinite(b) THEN Num(0)
    ELSE IF b[1] = 0 THEN <<Sign(a[1]), 0>>
    ELSE RatMul(a, <<Sign(b[1]) * b[2], Abs(b[1])>>)

RECURSIVE SumSeq(_)
SumSeq(s) == IF s = <<>> THEN 0 ELSE Head(s) + SumSeq(Tail(s))

\* the sum of the list instead of its mean
MeanAsSum(s) == Num(SumSeq(s))

\* np.mean of a list of floats; np.mean([]) is nan
Mean(s) == Rat(SumSeq(s), Len(s))

(***************************************************************************)
(* The networks: nn.Sequential module lists.                               *)
(***************************************************************************)
\* a freshly constructed module: its type and its default parameter tensors
Module(type) ==
    CASE type \in {"Conv2d", "ConvTranspose2d"} ->
             [type |-> type, weight |-> "default", bias |-> None]
      [] type = "BatchNorm2d" ->
             [type |-> type, weight |-> "ones", bias |-> "zeros"]
      [] OTHER -> [type |-> type, weight |-> None, bias |-> None]

GeneratorMain ==
    << "Conv2d", "BatchNorm2d", "ReLU",
       "Conv2d", "BatchNorm2d", "ReLU",
       "Conv2d", "BatchNorm2d", "ReLU",
       "ConvTranspose2d", "BatchNorm2d", "ReLU",
       "ConvTranspose2d", "BatchNorm2d", "ReLU",
       "ConvTranspose2d", "Sigmoid" >>

DiscriminatorMain ==
    << "Conv2d", "LeakyReLU",
       "Conv2d", "BatchNorm2d", "LeakyReLU",
       "Conv2d", "BatchNorm2d", "LeakyReLU",
       "Conv2d", "BatchNorm2d", "LeakyReLU",
       "Conv2d", "BatchNorm2d", "LeakyReLU",
       "Conv2d", "Sigmoid" >>

\* a network after its constructor: modules() in the order Module.apply
\* visits them (the children of main, then main, then the network itself);
\* training mode; no optimizer update applied (ver), no gradient (grad),
\* no batch seen by the normalisation layers (tracked)
Network(main, name) ==
    [ modules  |-> [i \in 1..(Len(main) + 2) |->
                      IF i <= Len(main) THEN Module(main[i])
                      ELSE IF i = Len(main) + 1 THEN Module("Sequential")
                      ELSE Module(name)],
      training |-> TRUE,
      ver      |-> 0,
      grad     |-> {},
      tracked  |-> 0 ]

LirGenerator == Network(GeneratorMain, "LirGenerator")

LirDiscriminator == Network(DiscriminatorMain, "LirDiscriminator")

(***************************************************************************)
(* WeightsInitializer                                                      *)
(***************************************************************************)
initialize_weights_xavier(m) ==
    IF m.type \in {"Conv3d", "ConvTranspose3d"}
    THEN [m EXCEPT !.weight = "xavier_normal",
                   !.bias = IF m.bias # None THEN "zeros" ELSE None]
    ELSE IF m.type = "BatchNorm3d"
    THEN [m EXCEPT !.weight = "ones", !.bias = "zeros"]
    ELSE m

initialize_weights_he(m) ==
    IF m.type \in {"Conv3d", "ConvTranspose3d"}
    THEN [m EXCEPT !.weight = "kaiming_normal",
                   !.bias = IF m.bias # None THEN "zeros" ELSE None]
    ELSE IF m.type = "BatchNorm3d"
    THEN [m EXCEPT !.weight = "ones", !.bias = "zeros"]
    ELSE m

\* nn.Module.apply(fn) with fn one of the two policies
ApplyXavier(net) ==
    [net EXCEPT !.modules =
        [i \in DOMAIN net.modules |-> initialize_weights_xavier(net.modules[i])]]

ApplyHe(net) ==
    [net EXCEPT !.modules =
        [i \in DOMAIN net.modules |-> initialize_weights_he(net.modules[i])]]

\* ModelConfig's initializer keys
XAVIER == "xavier"
HE == "he"

InitialWeightsKeys == {None, XAVIER, HE, "orthogonal"}

\* an unrecognized key is refused
set_initial_weights_strict(gen, disc, key) ==
    IF key = XAVIER
    THEN [gen |-> ApplyXavier(gen), disc |-> ApplyXavier(disc), raised |-> FALSE]
    ELSE IF key = HE
    THEN [gen |-> ApplyHe(gen), disc |-> ApplyHe(disc), raised |-> FALSE]
    ELSE [gen |-> gen, disc |-> disc, raised |-> TRUE]

\* LirGanTrainer._set_initial_weights: the two networks after the call, and
\* whether the call raised
set_initial_weights(gen, disc, key) ==
    IF key = XAVIER
    THEN [gen |-> ApplyXavier(gen), disc |-> ApplyXavier(disc), raised |-> FALSE]
    ELSE IF key = HE
    THEN [gen |-> ApplyHe(gen), disc |-> ApplyHe(disc), raised |-> FALSE]
    ELSE [gen |-> gen, disc |-> disc, raised |-> FALSE]

\* torch.optim.Adam over a network's parameters: steps taken, and the
\* gradient the last step consumed
Adam == [steps |-> 0, consumed |-> {}]

(***************************************************************************)
(* Trainer state                                                           *)
(***************************************************************************)
VARIABLES
    pc,                          \* position of the program
    EPOCHS, LOG_INTERVAL,        \* ModelConfig
    num_batches,                 \* len(self.lir_dataloader)
    initial_weights_key,
    has_geometric_loss,          \* lir_geometric_loss_function is not None
    lir_generator, lir_discriminator,
    lir_generator_optimizer, lir_discriminator_optimizer,
    epoch, batch, pos,           \* loop counters of train()
    fetched,              \* the batch the for statement yielded last
    loss_d, loss_g,
    losses_g, losses_d, losses_g_per_epoch, losses_d_per_epoch,
    events,                      \* the steps train() has executed, in order
    binary_grids,                \* argument of the last visualize call
    shown, plotted,              \* what the two sinks have rendered
    bce_weight, diou_weight, feasibility_weight,    \* LirGeometricLoss
    input_polygon, generated_lir, target_lir,       \* one sample, 2D masks
    copies,                      \* the batch holds this many of the sample
    total_loss,                  \* what LirGeometricLoss.forward returned
    sample_diou_loss,            \* forward's diou_loss after its last sample
    sample_feasibility_loss,     \* forward's feasibility_loss, likewise
    called,                      \* the network whose forward is running
    input_shape, tensor_shape,   \* its argument, and the tensor so far
    layer,                       \* the module of main to apply next
    forward_pc,
    directory,                   \* os.listdir(data_path), file by file
    slicer,
    lir_dataset,                 \* the list _get_lir_dataset builds
    file_index,
    dataset_pc,
    item                         \* the last __getitem__ call

vars == << pc, EPOCHS, LOG_INTERVAL, num_batches,
           initial_weights_key, has_geometric_loss,
           lir_generator, lir_discriminator,
           lir_generator_optimizer, lir_discriminator_optimizer,
           epoch, batch, pos, fetched, loss_d, loss_g,
           losses_g, losses_d, losses_g_per_epoch, losses_d_per_epoch,
           events, binary_grids, shown, plotted,
           bce_weight, diou_weight, feasibility_weight,
           input_polygon, generated_lir, target_lir, copies, total_loss,
           sample_diou_loss, sample_feasibility_loss,
           called, input_shape, tensor_shape, layer, forward_pc,
           directory, slicer, lir_dataset, file_index, dataset_pc, item >>

tensors == << called, input_shape, tensor_shape, layer, forward_pc >>

dataset == << directory, slicer, lir_dataset, file_index, dataset_pc, item >>

geometric == << bce_weight, diou_weight, feasibility_weight,
                input_polygon, generated_lir, target_lir, copies, total_loss,
                sample_diou_loss, sample_feasibility_loss >>

config == << EPOCHS, LOG_INTERVAL, num_batches,
             initial_weights_key, has_geometric_loss >>

(***************************************************************************)
(* LirGeometricLoss on binary masks.  A tensor is its shape and the set of *)
(* the indices at which it is 1; it is 0 everywhere else.                  *)
(***************************************************************************)
Pixels == (0..(GridH - 1)) \X (0..(GridW - 1))

Rect(y0, y1, x0, x1) == { p \in Pixels : p[1] \in y0..y1 /\ p[2] \in x0..x1 }

\* the empty mask and every axis-aligned rectangle of the grid
RectangleMasks ==
    { Rect(y0, y1, x0, x1) :
        y0 \in 0..(GridH - 1), y1 \in 0..(GridH - 1),
        x0 \in 0..(GridW - 1), x1 \in 0..(GridW - 1) }

\* the empty mask and every rectangle with a corner at the origin
PolygonMasks ==
    {{}} \cup { Rect(0, y1, 0, x1) : y1 \in 0..(GridH - 1), x1 \in 0..(GridW - 1) }

\* <<bce_weight, diou_weight, feasibility_weight>>: the defaults, each
\* weight switched off in turn, and every weight doubled
Weights == { <<1, 1, 1>>, <<0, 1, 1>>, <<1, 0, 1>>, <<1, 1, 0>>, <<2, 2, 2>> }

Mask(ones) == [shape |-> <<GridH, GridW>>, ones |-> ones]

\* Tensor.unsqueeze(dim=0), as LirDataset.__getitem__ applies it
unsqueeze(t) ==
    [shape |-> <<1>> \o t.shape, ones |-> { <<0>> \o p : p \in t.ones }]

RECURSIVE Product(_)
Product(s) == IF s = <<>> THEN 1 ELSE Head(s) * Product(Tail(s))

RECURSIVE SumSquares(_)
SumSquares(s) == IF s = <<>> THEN 0 ELSE Head(s) * Head(s) + SumSquares(Tail(s))

RECURSIVE SumCoordinate(_, _)
SumCoordinate(S, i) ==
    IF S = {} THEN 0
    ELSE LET p == CHOOSE q \in S : TRUE
         IN  p[i] + SumCoordinate(S \ {p}, i)

\* nn.BCEWithLogitsLoss()(x, z): the mean over the pixels of
\* max(x, 0) - x z + log(1 + exp(-|x|)), in thousandths:
\* 0.313 at x = z = 1, 1.313 at x = 1, z = 0, and 0.693 at x = 0
bce_loss_function(x, z) ==
    LET n11 == Cardinality(x.ones \cap z.ones)
        n10 == Cardinality(x.ones \ z.ones)
        n0  == Product(x.shape) - Cardinality(x.ones)
    IN  Rat(313 * n11 + 1313 * n10 + 693 * n0, 1000 * Product(x.shape))

\* torch.nonzero(t).float().mean(dim=0)
Centroid(t) ==
    [i \in 1..Len(t.shape) |-> Rat(SumCoordinate(t.ones, i), Cardinality(t.ones))]

RECURSIVE SquaredDistance(_, _, _)
SquaredDistance(a, b, i) ==
    IF i = 0 THEN Num(0)
    ELSE LET diff == RatSub(a[i], b[i])
         IN  RatAdd(RatMul(diff, diff), SquaredDistance(a, b, i - 1))

\* the intersection is divided by the area of the grid, not by the union
compute_diou_loss_over_area(generated, target, weight) ==
    LET intersection == generated.ones \cap target.ones
        iou_score == Rat(Cardinality(intersection), Product(generated.shape))
        distance2 == SquaredDistance(Centroid(generated), Centroid(target),
                                     Len(generated.shape))
        diagonal2 == Num(SumSquares(generated.shape))
        normalized_distance == RatDiv(distance2, diagonal2)
        diou_loss == RatSub(Num(1), RatSub(iou_score, normalized_distance))
    IN  RatMul(diou_loss, Num(weight))

\* LirGeometricLoss.compute_diou_loss
compute_diou_loss(generated, target, weight) ==
    LET intersection == generated.ones \cap target.ones
        union == generated.ones \cup target.ones
        iou_score == Rat(Cardinality(intersection), Cardinality(union))
        generated_lir_centroid == Centroid(generated)
        target_lir_centroid == Centroid(target)
        \* torch.norm(...) squared
        distance2 == SquaredDistance(generated_lir_centroid, target_lir_centroid,
                                     Len(generated.shape))
        diagonal2 == Num(SumSquares(generated.shape))
        normalized_distance == RatDiv(distance2, diagonal2)
        diou_loss == RatSub(Num(1), RatSub(iou_score, normalized_distance))
    IN  RatMul(diou_loss, Num(weight))

\* every pixel where the rectangle and the polygon differ is counted
compute_feasibility_loss_any_difference(polygon, generated, weight) ==
    LET infeasibility_mask == (generated.ones \ polygon.ones)
                                 \cup (polygon.ones \ generated.ones)
        feasibility_loss == Rat(Cardinality(infeasibility_mask),
                                Cardinality(polygon.ones))
    IN  RatMul(feasibility_loss, Num(weight))

\* LirGeometricLoss.compute_feasibility_loss
compute_feasibility_loss(polygon, generated, weight) ==
    LET infeasibility_mask == generated.ones \ polygon.ones
        feasibility_loss == Rat(Cardinality(infeasibility_mask),
                                Cardinality(polygon.ones))
    IN  RatMul(feasibility_loss, Num(weight))

\* the loss of one sample, lines 135-142
sample_loss(input, generated, target, bw, dw, fw) ==
    LET bce_loss == bce_loss_function(generated, target)
        diou_loss == compute_diou_loss(generated, target, dw)
        feasibility_loss == compute_feasibility_loss(input, generated, fw)
    IN  RatAdd(RatAdd(bce_loss, diou_loss), feasibility_loss)

\* LirGeometricLoss.forward on three batches, each a sequence of samples
RECURSIVE forward(_, _, _, _, _, _)
forward(input_polygons, generated_lirs, target_lirs, bw, dw, fw) ==
    IF generated_lirs = <<>> \/ target_lirs = <<>> \/ input_polygons = <<>>
    THEN Num(0)
    ELSE LET n == Min3(Len(generated_lirs), Len(target_lirs), Len(input_polygons))
         IN  RatAdd(forward(SubSeq(input_polygons, 1, n - 1),
                            SubSeq(generated_lirs, 1, n - 1),
                            SubSeq(target_lirs, 1, n - 1), bw, dw, fw),
                    sample_loss(input_polygons[n], generated_lirs[n],
                                target_lirs[n], bw, dw, fw))

\* a batch of k copies of one 2D mask, each with its channel dimension
Batch(ones, k) == [i \in 1..k |-> unsqueeze(Mask(ones))]

\* no call of the loss is in progress: the constructor's default weights
NoLossCall ==
    /\ bce_weight = 1 /\ diou_weight = 1 /\ feasibility_weight = 1
    /\ input_polygon = {} /\ generated_lir = {} /\ target_lir = {}
    /\ copies = 0
    /\ total_loss = Num(0)
    /\ sample_diou_loss = Num(0)
    /\ sample_feasibility_loss = Num(0)

(***************************************************************************)
(* The forward pass of the two networks on the shape of a tensor,          *)
(* <<N, C, H, W>>.                                                         *)
(***************************************************************************)
Conv2d(i, o, k, s, p) ==
    [ type |-> "Conv2d", in_channels |-> i, out_channels |-> o,
      kernel_size |-> k, stride |-> s, padding |-> p ]

ConvTranspose2d(i, o, k, s, p) ==
    [ type |-> "ConvTranspose2d", in_channels |-> i, out_channels |-> o,
      kernel_size |-> k, stride |-> s, padding |-> p ]

BatchNorm2d(n) == [ type |-> "BatchNorm2d", num_features |-> n ]

Activation(type) == [ type |-> type ]

\* the last transposed convolution with the kernel of the other two
GeneratorLayersSameKernel ==
    << Conv2d(1, 64, 4, 2, 1), BatchNorm2d(64), Activation("ReLU"),
       Conv2d(64, 32, 4, 2, 1), BatchNorm2d(32), Activation("ReLU"),
       Conv2d(32, 16, 4, 2, 1), BatchNorm2d(16), Activation("ReLU"),
       ConvTranspose2d(16, 32, 4, 2, 1), BatchNorm2d(32), Activation("ReLU"),
       ConvTranspose2d(32, 64, 4, 2, 1), BatchNorm2d(64), Activation("ReLU"),
       ConvTranspose2d(64, 1, 4, 2, 1), Activation("Sigmoid") >>

\* LirGenerator.main with the arguments of its modules
GeneratorLayers ==
    << Conv2d(1, 64, 4, 2, 1), BatchNorm2d(64), Activation("ReLU"),
       Conv2d(64, 32, 4, 2, 1), BatchNorm2d(32), Activation("ReLU"),
       Conv2d(32, 16, 4, 2, 1), BatchNorm2d(16), Activation("ReLU"),
       ConvTranspose2d(16, 32, 4, 2, 1), BatchNorm2d(32), Activation("ReLU"),
       ConvTranspose2d(32, 64, 4, 2, 1), BatchNorm2d(64), Activation("ReLU"),
       ConvTranspose2d(64, 1, 8, 2, 1), Activation("Sigmoid") >>

\* the last convolution with the default stride
DiscriminatorLayersUnitStride ==
    << Conv2d(1, 64, 4, 2, 1), Activation("LeakyReLU"),
       Conv2d(64, 128, 4, 2, 1), BatchNorm2d(128), Activation("LeakyReLU"),
       Conv2d(128, 256, 4, 2, 1), BatchNorm2d(256), Activation("LeakyReLU"),
       Conv2d(256, 512, 4, 2, 1), BatchNorm2d(512), Activation("LeakyReLU"),
       Conv2d(512, 512, 4, 2, 1), BatchNorm2d(512), Activation("LeakyReLU"),
       Conv2d(512, 1, 15, 1, 0), Activation("Sigmoid") >>

\* LirDiscriminator.main with the arguments of its modules
DiscriminatorLayers ==
    << Conv2d(1, 64, 4, 2, 1), Activation("LeakyReLU"),
       Conv2d(64, 128, 4, 2, 1), BatchNorm2d(128), Activation("LeakyReLU"),
       Conv2d(128, 256, 4, 2, 1), BatchNorm2d(256), Activation("LeakyReLU"),
       Conv2d(256, 512, 4, 2, 1), BatchNorm2d(512), Activation("LeakyReLU"),
       Conv2d(512, 512, 4, 2, 1), BatchNorm2d(512), Activation("LeakyReLU"),
       Conv2d(512, 1, 15, 15, 0), Activation("Sigmoid") >>

LayersOf(name) ==
    IF name = "LirGenerator" THEN GeneratorLayers ELSE DiscriminatorLayers

\* the output size of a convolution along one axis
ConvSize(size, m) ==
    ((size + 2 * m.padding - m.kernel_size) \div m.stride) + 1

\* the output size of a transposed convolution along one axis
ConvTransposeSize(size, m) ==
    (size - 1) * m.stride - 2 * m.padding + m.kernel_size

\* one module applied to a tensor of the given shape: the shape of its
\* output, or the error it raises
ModuleForward(m, shape, training) ==
    CASE m.type = "Conv2d" ->
            IF \/ shape[2] # m.in_channels
               \/ shape[3] + 2 * m.padding < m.kernel_size
               \/ shape[4] + 2 * m.padding < m.kernel_size
            THEN [raised |-> TRUE, shape |-> shape]
            ELSE [raised |-> FALSE,
                  shape |-> << shape[1], m.out_channels,
                               ConvSize(shape[3], m), ConvSize(shape[4], m) >>]
      [] m.type = "ConvTranspose2d" ->
            IF shape[2] # m.in_channels
            THEN [raised |-> TRUE, shape |-> shape]
            ELSE [raised |-> FALSE,
                  shape |-> << shape[1], m.out_channels,
                               ConvTransposeSize(shape[3], m),
                               ConvTransposeSize(shape[4], m) >>]
      [] m.type = "BatchNorm2d" ->
            \* in training mode: "Expected more than 1 value per channel"
            IF \/ shape[2] # m.num_features
               \/ (training /\ shape[1] * shape[3] * shape[4] = 1)
            THEN [raised |-> TRUE, shape |-> shape]
            ELSE [raised |-> FALSE, shape |-> shape]
      [] OTHER -> [raised |-> FALSE, shape |-> shape]

\* Tensor.view(-1, 1).squeeze(1)
ViewSqueeze(shape) == << Product(shape) >>

\* no forward pass of a network is in progress
NoForwardCall ==
    /\ called = None
    /\ input_shape = <<>> /\ tensor_shape = <<>>
    /\ layer = 0
    /\ forward_pc = "idle"

(***************************************************************************)
(* LirDataset                                                              *)
(***************************************************************************)
\* np.inf
Infinity == <<1, 0>>

\* a file np.load or torch.tensor refuses
Unparsable == [parsed |-> FALSE, shape |-> <<>>]

\* a file holding a numeric array of the given shape
Array(shape) == [parsed |-> TRUE, shape |-> shape]

SampleShape == <<2, GridH, GridW>>

Files ==
    { Unparsable, Array(SampleShape), Array(<<GridH, GridW>>),
      Array(<<3, GridH, GridW>>), Array(<<2, GridH + 1, GridW>>), Array(<<>>) }

\* lir_dataset[:slicer]
Slice(s, n) == SubSeq(s, 1, IF n < Len(s) THEN n ELSE Len(s))

\* LirDataset.__getitem__ on a loaded tensor: the tuple assignment iterates
\* the tensor along its first dimension and needs exactly two parts
getitem(index, t) ==
    IF t.shape = <<>> \/ t.shape[1] # 2
    THEN [ status |-> "raised", index |-> index,
           input_polygon |-> <<>>, target_lir |-> <<>> ]
    ELSE [ status |-> "returned", index |-> index,
           input_polygon |-> <<1>> \o Tail(t.shape),
           target_lir |-> <<1>> \o Tail(t.shape) ]

NoItem ==
    [ status |-> "none", index |-> 0, input_polygon |-> <<>>, target_lir |-> <<>> ]

\* no dataset is being loaded
NoDataset ==
    /\ directory = <<>>
    /\ slicer = Infinity
    /\ lir_dataset = <<>>
    /\ file_index = 0
    /\ dataset_pc = "idle"
    /\ item = NoItem

(***************************************************************************)
(* Steps of the networks and optimizers                                    *)
(***************************************************************************)
\* a forward pass through a network: in training mode every BatchNorm2d
\* counts the batch in its running statistics, in evaluation mode nothing
\* of the network changes
Forward(net) ==
    IF net.training THEN [net EXCEPT !.tracked = @ + 1] ELSE net

\* optimizer.zero_grad() on the optimizer's own parameters
zero_grad(net) == [net EXCEPT !.grad = {}]

\* loss.backward(): the loss's gradient is accumulated into a network the
\* loss was computed through
backward(net, loss) == [net EXCEPT !.grad = @ \cup {loss}]

\* optimizer.step(): the parameters that have a gradient are updated
step(net) == [net EXCEPT !.ver = IF net.grad # {} THEN @ + 1 ELSE @]

stepped(opt, net) == [steps |-> opt.steps + 1, consumed |-> net.grad]

\* Module.eval() / Module.train()
eval(net) == [net EXCEPT !.training = FALSE]

train_mode(net) == [net EXCEPT !.training = TRUE]

\* the discriminator step also steps the generator's parameters
train_lir_discriminator_steps_both(gen, disc, dopt, loss) ==
    LET g1 == Forward(gen)
        d1 == Forward(Forward(disc))
        d2 == zero_grad(d1)
        g2 == backward(g1, loss)
        d3 == backward(d2, loss)
    IN  [ gen |-> step(g2), disc |-> step(d3), opt |-> stepped(dopt, d3),
          critic_ver |-> disc.ver ]

\* LirGanTrainer._train_lir_discriminator on the batch whose loss is `loss`
train_lir_discriminator(gen, disc, dopt, loss) ==
    LET g1 == Forward(gen)                   \* generated_lir
        d1 == Forward(Forward(disc))         \* real_d, fake_d
        d2 == zero_grad(d1)
        g2 == backward(g1, loss)             \* generated_lir is not detached
        d3 == backward(d2, loss)
    IN  [ gen |-> g2, disc |-> step(d3), opt |-> stepped(dopt, d3),
          critic_ver |-> disc.ver ]

\* the generator step without its zero_grad()
train_lir_generator_keeps_grad(gen, disc, gopt, loss) ==
    LET g1 == Forward(gen)
        d1 == Forward(disc)
        g3 == backward(g1, loss)
        d2 == backward(d1, loss)
    IN  [ gen |-> step(g3), disc |-> d2, opt |-> stepped(gopt, g3),
          critic_ver |-> disc.ver ]

\* LirGanTrainer._train_lir_generator on the batch whose loss is `loss`
train_lir_generator(gen, disc, gopt, loss) ==
    LET g1 == Forward(gen)                   \* generated_lir
        d1 == Forward(disc)                  \* fake_d
        g2 == zero_grad(g1)
        g3 == backward(g2, loss)
        d2 == backward(d1, loss)
    IN  [ gen |-> step(g3), disc |-> d2, opt |-> stepped(gopt, g3),
          critic_ver |-> disc.ver ]

\* the names lirGAN.data.utils defines
UtilsAttributes ==
    { "runtime_calculator", "vectorize_polygon_from_array",
      "get_binary_grid_shaped_polygon", "plot_binary_grids", "plot_losses",
      "calculate_polygon_angles" }

\* utils.<name>(...) raises AttributeError unless the module defines <name>
Callable(name) == name \in UtilsAttributes

\* the generator trained before the discriminator
BatchBodyGeneratorFirst == << "gen", "disc" >>

\* the body of train()'s batch loop, in program order
BatchBody == << "disc", "gen" >>

\* evaluate without the switch to evaluation mode
evaluate_in_training_mode(gen, disc, n) ==
    LET loop == [ gen   |-> IF n > 0 THEN [gen EXCEPT !.tracked = @ + n] ELSE gen,
                  grids |-> [i \in 1..n |-> <<i, "polygon">>] ]
    IN  IF Callable("visualize_binary_grids")
        THEN [ gen |-> train_mode(loop.gen), disc |-> train_mode(disc),
               grids |-> loop.grids, raised |-> FALSE ]
        ELSE [ gen |-> loop.gen, disc |-> disc,
               grids |-> loop.grids, raised |-> TRUE ]

\* LirGanTrainer.evaluate(n): the networks afterwards, the list handed to
\* the visualisation sink, and whether the call raised
RECURSIVE EvaluateLoop(_, _, _)
EvaluateLoop(gen, n, grids) ==
    IF n = 0 THEN [gen |-> gen, grids |-> grids]
    ELSE EvaluateLoop(Forward(gen), n - 1,
                      Append(grids, <<Len(grids) + 1, "polygon">>))

evaluate(gen, disc, n) ==
    LET g1   == eval(gen)
        d1   == eval(disc)
        loop == EvaluateLoop(g1, n, <<>>)
    IN  IF Callable("visualize_binary_grids")
        THEN [ gen |-> train_mode(loop.gen), disc |-> train_mode(d1),
               grids |-> loop.grids, raised |-> FALSE ]
        ELSE [ gen |-> loop.gen, disc |-> d1,
               grids |-> loop.grids, raised |-> TRUE ]

\* the single-batch diagnostic of train(), lines 401-420
inline_diagnostic(gen, disc) ==
    LET g1 == Forward(eval(gen))
        d1 == eval(disc)
        grids == << <<1, "ground_truth">>, <<2, "generated">> >>
    IN  IF Callable("visualize_binary_grids")
        THEN [ gen |-> train_mode(g1), disc |-> train_mode(d1),
               grids |-> grids, raised |-> FALSE ]
        ELSE [ gen |-> g1, disc |-> d1, grids |-> grids, raised |-> TRUE ]

\* geometric_loss of one batch when a LirGeometricLoss is configured
GeometricLossValue == 2

(***************************************************************************)
(* LirGanTrainer: construction and train()                                 *)
(***************************************************************************)
Init ==
    /\ pc = "new"
    /\ EPOCHS \in 0..MaxEpochs
    /\ LOG_INTERVAL \in 1..MaxLogInterval
    /\ num_batches \in 0..MaxBatches
    /\ initial_weights_key \in InitialWeightsKeys
    /\ has_geometric_loss \in BOOLEAN
    /\ lir_generator = LirGenerator
    /\ lir_discriminator = LirDiscriminator
    /\ lir_generator_optimizer = Adam
    /\ lir_discriminator_optimizer = Adam
    /\ epoch = 0 /\ batch = 0 /\ pos = 0
    /\ fetched = NoBatch
    /\ loss_d = 0 /\ loss_g = 0
    /\ losses_g = <<>> /\ losses_d = <<>>
    /\ losses_g_per_epoch = <<>> /\ losses_d_per_epoch = <<>>
    /\ events = <<>>
    /\ binary_grids = <<>>
    /\ shown = 0 /\ plotted = <<>>
    /\ NoLossCall
    /\ NoForwardCall
    /\ NoDataset

\* LirGanTrainer.__init__, lines 251-252
InitWeights ==
    /\ pc = "new"
    /\ LET r == IF initial_weights_key # None
                THEN set_initial_weights(lir_generator, lir_discriminator,
                                         initial_weights_key)
                ELSE [gen |-> lir_generator, disc |-> lir_discriminator,
                      raised |-> FALSE]
       IN  /\ lir_generator' = r.gen
           /\ lir_discriminator' = r.disc
           /\ pc' = IF r.raised THEN "init_raised" ELSE "idle"
    /\ UNCHANGED << config, geometric, tensors, dataset, fetched, lir_generator_optimizer,
                    lir_discriminator_optimizer, epoch, batch, pos, loss_d,
                    loss_g, losses_g, losses_d, losses_g_per_epoch,
                    losses_d_per_epoch, events, binary_grids, shown, plotted >>

\* train(), lines 377-378
TrainCall ==
    /\ pc = "idle"
    /\ losses_g' = <<>> /\ losses_d' = <<>>
    /\ epoch' = 0
    /\ pc' = "epoch_head"
    /\ UNCHANGED << config, geometric, tensors, dataset, fetched, lir_generator,
                    lir_discriminator, lir_generator_optimizer,
                    lir_discriminator_optimizer, batch, pos, loss_d, loss_g,
                    losses_g_per_epoch, losses_d_per_epoch, events,
                    binary_grids, shown, plotted >>

\* the for statement takes the next epoch, lines 380-385
EpochBegin ==
    /\ pc = "epoch_head"
    /\ epoch < EPOCHS
    /\ epoch' = epoch + 1
    /\ losses_g_per_epoch' = <<>> /\ losses_d_per_epoch' = <<>>
    /\ batch' = 0 /\ pos' = 0
    /\ pc' = "batch"
    /\ UNCHANGED << config, geometric, tensors, dataset, fetched, lir_generator,
                    lir_discriminator, lir_generator_optimizer,
                    lir_discriminator_optimizer, loss_d, loss_g, losses_g,
                    losses_d, events, binary_grids, shown, plotted >>

\* the for statement is exhausted: train() returns
TrainReturn ==
    /\ pc = "epoch_head"
    /\ epoch >= EPOCHS
    /\ pc' = "done"
    /\ UNCHANGED << config, geometric, tensors, dataset, fetched, lir_generator,
                    lir_discriminator, lir_generator_optimizer,
                    lir_discriminator_optimizer, epoch, batch, pos, loss_d,
                    loss_g, losses_g, losses_d, losses_g_per_epoch,
                    losses_d_per_epoch, events, binary_grids, shown, plotted >>

\* line 387: the dataloader yields the next batch
BatchFetch ==
    /\ pc = "batch" /\ batch < num_batches
    /\ pos = 0
    /\ fetched' \in Batches
    /\ pos' = 1
    /\ UNCHANGED << config, geometric, tensors, dataset, pc, lir_generator, lir_discriminator,
                    lir_generator_optimizer, lir_discriminator_optimizer,
                    epoch, batch, loss_d, loss_g, losses_g, losses_d,
                    losses_g_per_epoch, losses_d_per_epoch, events,
                    binary_grids, shown, plotted >>

\* line 388
DiscriminatorStep ==
    /\ pc = "batch" /\ batch < num_batches
    /\ pos \in DOMAIN BatchBody /\ BatchBody[pos] = "disc"
    /\ LET r == train_lir_discriminator(lir_generator, lir_discriminator,
                    lir_discriminator_optimizer, <<"d", epoch, batch + 1>>)
       IN  /\ lir_generator' = r.gen
           /\ lir_discriminator' = r.disc
           /\ lir_discriminator_optimizer' = r.opt
           /\ loss_d' = fetched.d
           /\ events' = Append(events,
                  [ op |-> "disc", epoch |-> epoch, batch |-> batch + 1,
                    training |-> lir_generator.training
                                   /\ lir_discriminator.training,
                    critic_ver |-> r.critic_ver,
                    d_ver |-> r.disc.ver ])
    /\ pos' = pos + 1
    /\ UNCHANGED << config, geometric, tensors, dataset, fetched, pc, lir_generator_optimizer,
                    epoch, batch, loss_g, losses_g, losses_d,
                    losses_g_per_epoch, losses_d_per_epoch, binary_grids,
                    shown, plotted >>

\* line 389
GeneratorStep ==
    /\ pc = "batch" /\ batch < num_batches
    /\ pos \in DOMAIN BatchBody /\ BatchBody[pos] = "gen"
    /\ LET adversarial_loss == fetched.g
           geometric_loss == IF has_geometric_loss THEN GeometricLossValue ELSE 0
           r == train_lir_generator(lir_generator, lir_discriminator,
                    lir_generator_optimizer, <<"g", epoch, batch + 1>>)
       IN  /\ lir_generator' = r.gen
           /\ lir_discriminator' = r.disc
           /\ lir_generator_optimizer' = r.opt
           /\ loss_g' = adversarial_loss + geometric_loss
           /\ events' = Append(events,
                  [ op |-> "gen", epoch |-> epoch, batch |-> batch + 1,
                    training |-> lir_generator.training
                                   /\ lir_discriminator.training,
                    critic_ver |-> r.critic_ver,
                    d_ver |-> r.disc.ver ])
    /\ pos' = pos + 1
    /\ UNCHANGED << config, geometric, tensors, dataset, fetched, pc,
                    lir_discriminator_optimizer, epoch, batch, loss_d,
                    losses_g, losses_d, losses_g_per_epoch, losses_d_per_epoch,
                    binary_grids, shown, plotted >>

\* lines 390-391, and the for statement takes the next batch
BatchEnd ==
    /\ pc = "batch" /\ batch < num_batches
    /\ pos > Len(BatchBody)
    /\ losses_g_per_epoch' = Append(losses_g_per_epoch, loss_g)
    /\ losses_d_per_epoch' = Append(losses_d_per_epoch, loss_d)
    /\ batch' = batch + 1
    /\ pos' = 0
    /\ UNCHANGED << config, geometric, tensors, dataset, fetched, pc, lir_generator,
                    lir_discriminator, lir_generator_optimizer,
                    lir_discriminator_optimizer, epoch, loss_d, loss_g,
                    losses_g, losses_d, events, binary_grids, shown, plotted >>

\* lines 393-396
EpochAggregate ==
    /\ pc = "batch" /\ batch >= num_batches
    /\ losses_g' = Append(losses_g, Mean(losses_g_per_epoch))
    /\ losses_d' = Append(losses_d, Mean(losses_d_per_epoch))
    /\ pc' = "log_check"
    /\ UNCHANGED << config, geometric, tensors, dataset, fetched, lir_generator,
                    lir_discriminator, lir_generator_optimizer,
                    lir_discriminator_optimizer, epoch, batch, pos, loss_d,
                    loss_g, losses_g_per_epoch, losses_d_per_epoch, events,
                    binary_grids, shown, plotted >>

\* line 398, the condition is false
NoDiagnostics ==
    /\ pc = "log_check"
    /\ epoch % LOG_INTERVAL # 0
    /\ pc' = "epoch_head"
    /\ UNCHANGED << config, geometric, tensors, dataset, fetched, lir_generator,
                    lir_discriminator, lir_generator_optimizer,
                    lir_discriminator_optimizer, epoch, batch, pos, loss_d,
                    loss_g, losses_g, losses_d, losses_g_per_epoch,
                    losses_d_per_epoch, events, binary_grids, shown, plotted >>

\* lines 399-420
DiagnosticsInline ==
    /\ pc = "log_check"
    /\ epoch % LOG_INTERVAL = 0
    /\ num_batches = 1
    /\ LET r == inline_diagnostic(lir_generator, lir_discriminator)
       IN  /\ lir_generator' = r.gen
           /\ lir_discriminator' = r.disc
           /\ binary_grids' = r.grids
           /\ events' = Append(events,
                  [ op |-> "inline", epoch |-> epoch, batch |-> batch,
                    training |-> r.gen.training /\ r.disc.training,
                    critic_ver |-> lir_discriminator.ver,
                    d_ver |-> r.disc.ver ])
           /\ IF r.raised
              THEN /\ pc' = "raised"
                   /\ UNCHANGED << shown, plotted >>
              ELSE /\ pc' = "epoch_head"
                   /\ shown' = shown + 1
                   /\ plotted' = Append(plotted, Len(losses_g))
    /\ UNCHANGED << config, geometric, tensors, dataset, fetched, lir_generator_optimizer,
                    lir_discriminator_optimizer, epoch, batch, pos, loss_d,
                    loss_g, losses_g, losses_d, losses_g_per_epoch,
                    losses_d_per_epoch >>

\* lines 422-423, with ModelConfig.BATCH_SIZE_TO_EVALUATE read at the call
DiagnosticsEvaluate ==
    /\ pc = "log_check"
    /\ epoch % LOG_INTERVAL = 0
    /\ num_batches # 1
    /\ \E BATCH_SIZE_TO_EVALUATE \in 0..MaxEvaluate :
         LET r == evaluate(lir_generator, lir_discriminator, BATCH_SIZE_TO_EVALUATE)
         IN  /\ lir_generator' = r.gen
             /\ lir_discriminator' = r.disc
             /\ binary_grids' = r.grids
             /\ events' = Append(events,
                    [ op |-> "evaluate", epoch |-> epoch, batch |-> batch,
                      training |-> r.gen.training /\ r.disc.training,
                      critic_ver |-> lir_discriminator.ver,
                      d_ver |-> r.disc.ver ])
             /\ IF r.raised
                THEN /\ pc' = "raised"
                     /\ UNCHANGED shown
                ELSE /\ pc' = "epoch_head"
                     /\ shown' = shown + 1
    /\ UNCHANGED << config, geometric, tensors, dataset, fetched, lir_generator_optimizer,
                    lir_discriminator_optimizer, epoch, batch, pos, loss_d,
                    loss_g, losses_g, losses_d, losses_g_per_epoch,
                    losses_d_per_epoch, plotted >>

Next ==
    \/ InitWeights
    \/ TrainCall
    \/ EpochBegin
    \/ TrainReturn
    \/ BatchFetch
    \/ DiscriminatorStep
    \/ GeneratorStep
    \/ BatchEnd
    \/ EpochAggregate
    \/ NoDiagnostics
    \/ DiagnosticsInline
    \/ DiagnosticsEvaluate

Spec == Init /\ [][Next]_vars

(***************************************************************************)
(* Properties of the trainer                                               *)
(***************************************************************************)
StepEvents(op, e, b) ==
    { i \in DOMAIN events :
        events[i].op = op /\ events[i].epoch = e /\ events[i].batch = b }

\* the batches train() has completed: <<epoch, batch>>
BatchesDone ==
    { eb \in (1..epoch) \X (1..num_batches) : eb[1] < epoch \/ eb[2] <= batch }

\* the trainable parameters of a network
Parameters(net) == [modules |-> net.modules, ver |-> net.ver]

LastEvent == events[Len(events)]

\* the epochs whose aggregation (lines 393-396) has run
EpochsCompleted == IF pc = "batch" THEN epoch - 1 ELSE epoch

\* C1: every completed batch had exactly one discriminator step and exactly
\* one generator step; every generator step comes after the discriminator
\* step of its own batch, that step updated the discriminator's parameters,
\* and the generator step's critic forward pass read exactly the parameters
\* that update produced.
C1_DiscriminatorThenGenerator ==
    /\ \A eb \in BatchesDone :
          /\ Cardinality(StepEvents("disc", eb[1], eb[2])) = 1
          /\ Cardinality(StepEvents("gen", eb[1], eb[2])) = 1
    /\ \A g \in DOMAIN events :
          events[g].op = "gen" =>
             \E d \in 1..(g - 1) :
                /\ StepEvents("disc", events[g].epoch, events[g].batch) = {d}
                /\ StepEvents("gen", events[g].epoch, events[g].batch) = {g}
                /\ events[d].d_ver = events[d].critic_ver + 1
                /\ events[g].critic_ver = events[d].d_ver

C1_Witness ==
    /\ pc = "done" /\ EPOCHS = 2 /\ num_batches = 2
    /\ StepEvents("gen", 2, 2) # {}

\* C2: a discriminator step changes the discriminator's parameters and not
\* the generator's, a generator step changes the generator's parameters and
\* not the discriminator's, and during train() no other step changes the
\* parameters of either network; so after a discriminator step and a
\* generator step both networks have been updated.
C2_StepFrame ==
    [][ pc \notin {"new"} =>
        /\ (Len(events') > Len(events) /\ events'[Len(events')].op = "disc") =>
              /\ Parameters(lir_discriminator)' # Parameters(lir_discriminator)
              /\ Parameters(lir_generator)' = Parameters(lir_generator)
        /\ (Len(events') > Len(events) /\ events'[Len(events')].op = "gen") =>
              /\ Parameters(lir_generator)' # Parameters(lir_generator)
              /\ Parameters(lir_discriminator)' = Parameters(lir_discriminator)
        /\ Parameters(lir_discriminator)' # Parameters(lir_discriminator) =>
              /\ Len(events') > Len(events) /\ events'[Len(events')].op = "disc"
              /\ lir_discriminator_optimizer'.steps = lir_discriminator_optimizer.steps + 1
        /\ Parameters(lir_generator)' # Parameters(lir_generator) =>
              /\ Len(events') > Len(events) /\ events'[Len(events')].op = "gen"
              /\ lir_generator_optimizer'.steps = lir_generator_optimizer.steps + 1
      ]_vars

C2_Witness ==
    /\ pc = "batch" /\ pos > Len(BatchBody)
    /\ lir_discriminator.ver = 1 /\ lir_generator.ver = 1

\* C3: whenever train() has ended it has returned normally, after exactly
\* EPOCHS epochs.
C3_RunsEveryEpoch ==
    pc \in {"done", "raised"} =>
        /\ pc = "done"
        /\ epoch = EPOCHS

\* C4: both loss histories have the same length, the number of completed
\* epochs; each entry is the mean of its epoch's per-batch losses, one per
\* batch; the histories only grow by appending during train(); and their
\* length is EPOCHS when train() has returned.
C4_HistoryState ==
    /\ Len(losses_g) = Len(losses_d)
    /\ pc \notin {"new", "idle"} => Len(losses_g) = EpochsCompleted
    /\ pc = "done" => Len(losses_g) = EPOCHS
    /\ (pc = "log_check" /\ num_batches > 0) =>
          /\ Len(losses_g_per_epoch) = num_batches
          /\ Len(losses_d_per_epoch) = num_batches
          /\ losses_g[epoch][1] * num_batches
                = SumSeq(losses_g_per_epoch) * losses_g[epoch][2]
          /\ losses_d[epoch][1] * num_batches
                = SumSeq(losses_d_per_epoch) * losses_d[epoch][2]

C4_LossHistories ==
    /\ []C4_HistoryState
    /\ [][ pc \notin {"new", "idle"} =>
            /\ Len(losses_g') >= Len(losses_g)
            /\ Len(losses_d') >= Len(losses_d)
            /\ \A i \in DOMAIN losses_g : losses_g'[i] = losses_g[i]
            /\ \A i \in DOMAIN losses_d : losses_d'[i] = losses_d[i]
         ]_vars

C4_Witness ==
    /\ pc = "done" /\ EPOCHS = 2 /\ num_batches = 2
    /\ Len(losses_g) = 2
    /\ losses_g[1] # losses_g[2]

\* C5: diagnostics ran at the end of epoch e exactly when e is a multiple of
\* LOG_INTERVAL; with exactly one batch per epoch they were the inline
\* visualisation followed by the loss plot, and evaluate() ran exactly when
\* there is more than one batch.
DiagnosticEvents(e) ==
    { i \in DOMAIN events :
        events[i].op \in {"inline", "evaluate"} /\ events[i].epoch = e }

C5_Diagnostics ==
    /\ \A e \in 1..epoch :
          (e < epoch \/ pc \in {"epoch_head", "done", "raised"}) =>
             (DiagnosticEvents(e) # {} <=> e % LOG_INTERVAL = 0)
    /\ \A i \in DOMAIN events :
          /\ events[i].op = "inline" =>
                /\ num_batches = 1
                /\ shown > 0
                /\ \E j \in DOMAIN plotted : plotted[j] = events[i].epoch
          /\ events[i].op = "evaluate" <=>
                (events[i].op \in {"inline", "evaluate"} /\ num_batches > 1)

\* C6: a call of evaluate() leaves the parameters, the gradients and the
\* normalisation statistics of both networks, both optimizers and both loss
\* histories as they were.
C6_EvaluateFrame ==
    [][ (Len(events') > Len(events) /\ events'[Len(events')].op = "evaluate") =>
          /\ Parameters(lir_generator)' = Parameters(lir_generator)
          /\ Parameters(lir_discriminator)' = Parameters(lir_discriminator)
          /\ lir_generator'.tracked = lir_generator.tracked
          /\ lir_discriminator'.tracked = lir_discriminator.tracked
          /\ lir_generator'.grad = lir_generator.grad
          /\ lir_discriminator'.grad = lir_discriminator.grad
          /\ UNCHANGED << lir_generator_optimizer, lir_discriminator_optimizer,
                          losses_g, losses_d >>
      ]_vars

C6_Witness ==
    /\ events # <<>>
    /\ LastEvent.op = "evaluate"
    /\ Len(binary_grids) = 2
    /\ lir_generator.ver > 0

\* C7: every discriminator and generator step ran with both networks in
\* training mode, and once a diagnostic has ended both networks are in
\* training mode again.
C7_TrainingMode ==
    /\ \A i \in DOMAIN events :
          events[i].op \in {"disc", "gen"} => events[i].training
    /\ (events # <<>> /\ LastEvent.op \in {"inline", "evaluate"}) =>
          /\ lir_generator.training
          /\ lir_discriminator.training

\* C8: after construction with a key that is neither XAVIER nor HE no error
\* was raised and both networks are as their constructors left them.
C8_UnrecognizedKey ==
    (pc # "new" /\ initial_weights_key \notin {XAVIER, HE}) =>
        /\ pc # "init_raised"
        /\ (pc = "idle" =>
              /\ lir_generator = LirGenerator
              /\ lir_discriminator = LirDiscriminator)

C8_Witness ==
    /\ pc = "idle"
    /\ initial_weights_key = "orthogonal"

\* C9: after construction with XAVIER or HE, and before the first epoch,
\* every convolution and transposed convolution of both networks carries
\* weights drawn by that policy, and every normalisation has scale 1 and
\* bias 0.
PolicyWeight(key) == IF key = XAVIER THEN "xavier_normal" ELSE "kaiming_normal"

Initialized(net, key) ==
    \A i \in DOMAIN net.modules :
       /\ net.modules[i].type \in {"Conv2d", "ConvTranspose2d"} =>
             net.modules[i].weight = PolicyWeight(key)
       /\ net.modules[i].type = "BatchNorm2d" =>
             net.modules[i].weight = "ones" /\ net.modules[i].bias = "zeros"

C9_PolicyApplied ==
    (pc = "idle" /\ initial_weights_key \in {XAVIER, HE}) =>
        /\ Initialized(lir_generator, initial_weights_key)
        /\ Initialized(lir_discriminator, initial_weights_key)

\* C17: the backward pass of a discriminator step leaves its loss's
\* gradient on the generator's parameters too, and the backward pass of a
\* generator step on the discriminator's; the gradient an optimizer step
\* consumes is that of the loss computed in the same step and of no other;
\* and nothing else makes an optimizer consume a gradient.
C17_GradientIsolation ==
    [][ /\ (Len(events') > Len(events) /\ events'[Len(events')].op = "disc") =>
              /\ lir_discriminator_optimizer'.consumed = { <<"d", epoch, batch + 1>> }
              /\ <<"d", epoch, batch + 1>> \in lir_generator'.grad
              /\ lir_generator'.grad = lir_generator.grad \cup { <<"d", epoch, batch + 1>> }
        /\ (Len(events') > Len(events) /\ events'[Len(events')].op = "gen") =>
              /\ lir_generator_optimizer'.consumed = { <<"g", epoch, batch + 1>> }
              /\ <<"g", epoch, batch + 1>> \in lir_discriminator'.grad
              /\ lir_discriminator'.grad
                    = lir_discriminator.grad \cup { <<"g", epoch, batch + 1>> }
        /\ lir_discriminator_optimizer' # lir_discriminator_optimizer =>
              (Len(events') > Len(events) /\ events'[Len(events')].op = "disc")
        /\ lir_generator_optimizer' # lir_generator_optimizer =>
              (Len(events') > Len(events) /\ events'[Len(events')].op = "gen")
      ]_vars

\* the generator step of the second batch of the second epoch has run, on
\* a generator that carried the discriminator loss's gradient
C17_Witness ==
    /\ pc = "batch" /\ epoch = 2 /\ batch = 1 /\ pos > Len(BatchBody)
    /\ lir_generator_optimizer.steps = 4
    /\ lir_generator_optimizer.consumed = { <<"g", 2, 2>> }
    /\ lir_discriminator_optimizer.consumed = { <<"d", 2, 2>> }
    /\ lir_discriminator.grad = { <<"d", 2, 2>>, <<"g", 2, 2>> }

\* C18: the list evaluate(n) hands to the visualisation sink holds, for
\* each of its n polygons in order, the overlay of the polygon and its
\* thresholded prediction.
C18_OverlayGrids ==
    (events # <<>> /\ LastEvent.op = "evaluate") =>
        \A i \in DOMAIN binary_grids : binary_grids[i] = <<i, "overlay">>

(***************************************************************************)
(* LirGeometricLoss.forward as an operation of its own                     *)
(***************************************************************************)
TrainerFields ==
    /\ pc = "new"
    /\ EPOCHS = 0 /\ LOG_INTERVAL = 1
    /\ num_batches = 0
    /\ initial_weights_key = None
    /\ has_geometric_loss = TRUE
    /\ lir_generator_optimizer = Adam
    /\ lir_discriminator_optimizer = Adam
    /\ epoch = 0 /\ batch = 0 /\ pos = 0
    /\ fetched = NoBatch
    /\ loss_d = 0 /\ loss_g = 0
    /\ losses_g = <<>> /\ losses_d = <<>>
    /\ losses_g_per_epoch = <<>> /\ losses_d_per_epoch = <<>>
    /\ events = <<>>
    /\ binary_grids = <<>>
    /\ shown = 0 /\ plotted = <<>>

TrainerNotStarted ==
    /\ TrainerFields
    /\ lir_generator = LirGenerator
    /\ lir_discriminator = LirDiscriminator

\* the trainer's state apart from its two networks
bookkeeping == << pc, config, lir_generator_optimizer,
                  lir_discriminator_optimizer, epoch, batch, pos, fetched,
                  loss_d, loss_g, losses_g, losses_d, losses_g_per_epoch,
                  losses_d_per_epoch, events, binary_grids, shown, plotted >>

trainer == << pc, config, lir_generator, lir_discriminator,
              lir_generator_optimizer, lir_discriminator_optimizer,
              epoch, batch, pos, fetched, loss_d, loss_g, losses_g, losses_d,
              losses_g_per_epoch, losses_d_per_epoch, events,
              binary_grids, shown, plotted >>

\* LirGeometricLoss.__init__ with each weight configured, and one sample
InitLoss ==
    /\ TrainerNotStarted
    /\ \E w \in Weights :
          /\ bce_weight = w[1]
          /\ diou_weight = w[2]
          /\ feasibility_weight = w[3]
    /\ input_polygon \in PolygonMasks
    /\ generated_lir \in RectangleMasks
    /\ target_lir \in RectangleMasks
    /\ copies = 0
    /\ total_loss = Num(0)
    /\ sample_diou_loss = Num(0)
    /\ sample_feasibility_loss = Num(0)
    /\ NoForwardCall
    /\ NoDataset

\* LirGeometricLoss.forward on a batch of k copies of the sample
ApplyForward ==
    /\ copies = 0
    /\ \E k \in 1..MaxCopies :
         /\ copies' = k
         /\ total_loss' = forward(Batch(input_polygon, k), Batch(generated_lir, k),
                                  Batch(target_lir, k),
                                  bce_weight, diou_weight, feasibility_weight)
         \* the loop's variables keep the values of its last iteration
         /\ sample_diou_loss' =
                compute_diou_loss(Batch(generated_lir, k)[k],
                                  Batch(target_lir, k)[k], diou_weight)
         /\ sample_feasibility_loss' =
                compute_feasibility_loss(Batch(input_polygon, k)[k],
                                         Batch(generated_lir, k)[k],
                                         feasibility_weight)
    /\ UNCHANGED << trainer, tensors, dataset, bce_weight, diou_weight, feasibility_weight,
                    input_polygon, generated_lir, target_lir >>

NextLoss == ApplyForward

SpecLoss == InitLoss /\ [][NextLoss]_vars

\* C10: forward returns, for a batch of k copies of one sample, k times
\* bce_weight * reconstruction + diou_weight * DIoU + feasibility_weight *
\* feasibility of that sample.
WeightedSampleLoss ==
    LET g == unsqueeze(Mask(generated_lir))
        t == unsqueeze(Mask(target_lir))
        p == unsqueeze(Mask(input_polygon))
    IN  RatAdd(RatAdd(RatMul(Num(bce_weight), bce_loss_function(g, t)),
                      RatMul(Num(diou_weight), compute_diou_loss(g, t, 1))),
               RatMul(Num(feasibility_weight), compute_feasibility_loss(p, g, 1)))

C10_WeightedSum ==
    copies > 0 => total_loss = RatMul(Num(copies), WeightedSampleLoss)

\* C11 as amended: for every mask with at least one 1-pixel, when generated
\* is pixel-identical to target the Distance-IoU term is 0; when both are
\* the all-zero mask the term is nan.
C11_IdenticalMasksNonEmpty ==
    (copies > 0 /\ generated_lir = target_lir) =>
        IF generated_lir # {}
        THEN sample_diou_loss = Num(0)
        ELSE IsNaN(sample_diou_loss)

C11_Witness ==
    /\ copies > 0
    /\ generated_lir = target_lir
    /\ generated_lir # {} /\ generated_lir # Pixels
    /\ diou_weight = 2
    /\ sample_diou_loss = Num(0)

\* C11 as stated: for every mask, the all-zero mask included, when generated
\* is pixel-identical to target the Distance-IoU term is 0.
C11_IdenticalMasks ==
    (copies > 0 /\ generated_lir = target_lir) => sample_diou_loss = Num(0)

\* the pixels where generated is 1 and the polygon is not
FalselyOutside ==
    Cardinality({ p \in Pixels : p \in generated_lir /\ p \notin input_polygon })

PolygonArea == Cardinality({ p \in Pixels : p \in input_polygon })

\* C12 as amended: for a polygon with at least one 1-pixel the feasibility
\* term is feasibility_weight times the number of pixels where generated is
\* 1 and the polygon is not, divided by the number of 1-pixels of the
\* polygon, and so it is 0 when every 1-pixel of generated is a 1-pixel of
\* the polygon; for the all-zero polygon the term is nan or infinite.
C12_FeasibilityNonEmpty ==
    copies > 0 =>
        IF input_polygon # {}
        THEN /\ IsFinite(sample_feasibility_loss)
             /\ sample_feasibility_loss[1] * PolygonArea
                   = feasibility_weight * FalselyOutside
                        * sample_feasibility_loss[2]
             /\ generated_lir \subseteq input_polygon =>
                   sample_feasibility_loss = Num(0)
        ELSE ~IsFinite(sample_feasibility_loss)

C12_Witness ==
    /\ copies > 0
    /\ feasibility_weight = 2
    /\ generated_lir # {} /\ input_polygon # {}
    /\ generated_lir \subseteq input_polygon
    /\ generated_lir # input_polygon
    /\ sample_feasibility_loss = Num(0)

\* C12 as stated: whenever every 1-pixel of generated is a 1-pixel of the
\* polygon the feasibility term is 0.
C12_Feasibility ==
    (copies > 0 /\ generated_lir \subseteq input_polygon) =>
        sample_feasibility_loss = Num(0)

\* C16: for every sample forward passes, the Distance-IoU term is
\* diou_weight * (1 - IoU + |centroid(generated) - centroid(target)|^2
\* / (H^2 + W^2)).
GridDiagonal2 == Num(GridH * GridH + GridW * GridW)

C16_Diagonal ==
    (copies > 0 /\ generated_lir # {} /\ target_lir # {}) =>
        LET iou == Rat(Cardinality(generated_lir \cap target_lir),
                       Cardinality(generated_lir \cup target_lir))
            distance2 == SquaredDistance(Centroid(Mask(generated_lir)),
                                         Centroid(Mask(target_lir)), 2)
            normalized == RatDiv(distance2, GridDiagonal2)
        IN  sample_diou_loss
              = RatMul(Num(diou_weight),
                       RatAdd(RatSub(Num(1), iou), normalized))

(***************************************************************************)
(* The forward pass of a network as an operation of its own                *)
(***************************************************************************)
\* batches of single-channel masks, square or as wide as the dataset's
InputShapes ==
    UNION { { <<n, 1, h, h>>, <<n, 1, h, CanonicalSize>> } :
              n \in 1..MaxBatchSize, h \in 1..MaxSide }

\* a network, in training or in evaluation mode, is called on a batch
InitShape ==
    /\ TrainerFields
    /\ NoLossCall
    /\ NoDataset
    /\ called \in {"LirGenerator", "LirDiscriminator"}
    /\ \E training \in BOOLEAN :
          /\ lir_generator =
                IF called = "LirGenerator" /\ ~training
                THEN eval(LirGenerator) ELSE LirGenerator
          /\ lir_discriminator =
                IF called = "LirDiscriminator" /\ ~training
                THEN eval(LirDiscriminator) ELSE LirDiscriminator
    /\ input_shape \in InputShapes
    /\ tensor_shape = input_shape
    /\ layer = 1
    /\ forward_pc = "main"

CalledNetwork ==
    IF called = "LirGenerator" THEN lir_generator ELSE lir_discriminator

\* nn.Sequential.forward: the next module of main
SequentialStep ==
    /\ forward_pc = "main"
    /\ layer <= Len(LayersOf(called))
    /\ LET r == ModuleForward(LayersOf(called)[layer], tensor_shape,
                              CalledNetwork.training)
       IN  IF r.raised
           THEN /\ forward_pc' = "raised"
                /\ UNCHANGED << tensor_shape, layer >>
           ELSE /\ tensor_shape' = r.shape
                /\ layer' = layer + 1
                /\ UNCHANGED forward_pc
    /\ UNCHANGED << trainer, geometric, dataset, called, input_shape >>

\* LirGenerator.forward returns self.main(input_polygon)
GeneratorReturn ==
    /\ forward_pc = "main"
    /\ called = "LirGenerator"
    /\ layer > Len(GeneratorLayers)
    /\ forward_pc' = "returned"
    /\ lir_generator' = Forward(lir_generator)
    /\ UNCHANGED << bookkeeping, lir_discriminator, geometric, dataset,
                    called, input_shape, tensor_shape, layer >>

\* LirDiscriminator.forward returns self.main(...).view(-1, 1).squeeze(1)
DiscriminatorReturn ==
    /\ forward_pc = "main"
    /\ called = "LirDiscriminator"
    /\ layer > Len(DiscriminatorLayers)
    /\ tensor_shape' = ViewSqueeze(tensor_shape)
    /\ forward_pc' = "returned"
    /\ lir_discriminator' = Forward(lir_discriminator)
    /\ UNCHANGED << bookkeeping, lir_generator, geometric, dataset,
                    called, input_shape, layer >>

NextShape ==
    \/ SequentialStep
    \/ GeneratorReturn
    \/ DiscriminatorReturn

SpecShape == InitShape /\ [][NextShape]_vars

\* C13 as amended: whenever LirGenerator's forward returns, the batch size
\* is kept, there is one channel, and a side of input size s has output
\* size 8 * (s div 8) + 4; so the output has the height and the width of
\* the input when both are congruent to 4 modulo 8.
C13_ShapePreservedMod8 ==
    (called = "LirGenerator" /\ forward_pc = "returned") =>
        /\ tensor_shape[1] = input_shape[1]
        /\ tensor_shape[2] = 1
        /\ tensor_shape[3] = 8 * (input_shape[3] \div 8) + 4
        /\ tensor_shape[4] = 8 * (input_shape[4] \div 8) + 4
        /\ (input_shape[3] % 8 = 4 /\ input_shape[4] % 8 = 4) =>
              tensor_shape = input_shape

C13_Witness ==
    /\ called = "LirGenerator" /\ forward_pc = "returned"
    /\ input_shape = <<2, 1, 12, CanonicalSize>>
    /\ tensor_shape = input_shape

\* C13 as stated: whenever LirGenerator's forward returns on an input whose
\* height and width are divisible by 8, the output has the height and the
\* width of the input.
C13_ShapePreserved ==
    ( /\ called = "LirGenerator" /\ forward_pc = "returned"
      /\ input_shape[3] % 8 = 0 /\ input_shape[4] % 8 = 0 ) =>
        /\ tensor_shape[3] = input_shape[3]
        /\ tensor_shape[4] = input_shape[4]

\* the positions of the last convolution along a side of input size s
ScorePositions(s) == (((s \div 32) - 15) \div 15) + 1

\* C14 as amended: LirDiscriminator's forward accepts exactly the inputs of
\* height and width at least 480; before the last convolution the remaining
\* size of a side s is s div 32; the result is one-dimensional, and on a
\* batch of N masks of height and width between 480 and 959 (500 x 500
\* among them) it has exactly N scores.
C14_ScoresUpTo959 ==
    called = "LirDiscriminator" =>
        /\ forward_pc = "raised" => (input_shape[3] < 480 \/ input_shape[4] < 480)
        /\ (forward_pc = "main" /\ layer >= Len(DiscriminatorLayers) - 1) =>
              /\ input_shape[3] >= 32 /\ input_shape[4] >= 32
              /\ layer = Len(DiscriminatorLayers) - 1 =>
                    /\ tensor_shape[3] = input_shape[3] \div 32
                    /\ tensor_shape[4] = input_shape[4] \div 32
        /\ forward_pc = "returned" =>
              /\ input_shape[3] >= 480 /\ input_shape[4] >= 480
              /\ tensor_shape = << input_shape[1] * ScorePositions(input_shape[3])
                                     * ScorePositions(input_shape[4]) >>
              /\ (input_shape[3] <= 959 /\ input_shape[4] <= 959) =>
                    tensor_shape = << input_shape[1] >>

C14_Witness ==
    /\ called = "LirDiscriminator" /\ forward_pc = "returned"
    /\ input_shape = <<2, 1, CanonicalSize, CanonicalSize>>
    /\ tensor_shape = <<2>>

\* C14 as stated: whenever LirDiscriminator's forward returns on a batch of
\* N single-channel masks, the result has exactly N scores.
C14_OneScorePerSample ==
    (called = "LirDiscriminator" /\ forward_pc = "returned") =>
        tensor_shape = << input_shape[1] >>

(***************************************************************************)
(* LirDataset: construction and __getitem__                                *)
(***************************************************************************)
Directories == UNION { [1..k -> Files] : k \in 0..MaxFiles }

Slicers == { Num(k) : k \in 0..MaxFiles } \cup { Infinity }

\* LirDataset(data_path, slicer) is called on a directory
InitDataset ==
    /\ TrainerNotStarted
    /\ NoLossCall
    /\ NoForwardCall
    /\ directory \in Directories
    /\ slicer \in Slicers
    /\ lir_dataset = <<>>
    /\ file_index = 0
    /\ dataset_pc = "listing"
    /\ item = NoItem

\* lines 44-46: the next file is loaded and appended
LoadFile ==
    /\ dataset_pc = "listing"
    /\ file_index < Len(directory)
    /\ LET file == directory[file_index + 1]
       IN  IF file.parsed
           THEN /\ lir_dataset' = Append(lir_dataset, [shape |-> file.shape])
                /\ file_index' = file_index + 1
                /\ UNCHANGED dataset_pc
           ELSE /\ dataset_pc' = "raised"
                /\ UNCHANGED << lir_dataset, file_index >>
    /\ UNCHANGED << trainer, geometric, tensors, directory, slicer, item >>

\* lines 48-51, and __init__ keeps the list
LoadReturn ==
    /\ dataset_pc = "listing"
    /\ file_index = Len(directory)
    /\ lir_dataset' = IF IsFinite(slicer) THEN Slice(lir_dataset, slicer[1])
                      ELSE lir_dataset
    /\ dataset_pc' = "loaded"
    /\ UNCHANGED << trainer, geometric, tensors, directory, slicer,
                    file_index, item >>

\* __getitem__(index), for an index the dataloader's sampler draws
GetItem ==
    /\ dataset_pc = "loaded"
    /\ \E index \in 0..(Len(lir_dataset) - 1) :
          item' = getitem(index, lir_dataset[index + 1])
    /\ UNCHANGED << trainer, geometric, tensors, directory, slicer,
                    lir_dataset, file_index, dataset_pc >>

NextDataset ==
    \/ LoadFile
    \/ LoadReturn
    \/ GetItem

SpecDataset == InitDataset /\ [][NextDataset]_vars

\* C15: a dataset is produced only from a directory in which every file
\* parses as a numeric array of shape (2, H, W), and every sample that
\* __getitem__ reaches is such an array, returned as two (1, H, W) masks.
C15_MalformedRefusedAtLoad ==
    /\ dataset_pc = "loaded" =>
          \A i \in DOMAIN directory : directory[i] = Array(SampleShape)
    /\ item.status # "none" =>
          /\ item.status = "returned"
          /\ item.input_polygon = <<1, GridH, GridW>>
          /\ item.target_lir = <<1, GridH, GridW>>

====
